---- MODULE Spec2Model ----
(***************************************************************************)
(* A model of the IT Consulting Assistant (src/app.py): the document       *)
(* normalizer input_pdf_setup, the inference invoker get_gemini_response,  *)
(* the template catalog input_prompt_*, and the button dispatch of the     *)
(* Streamlit script.                                                       *)
(*                                                                         *)
(* Python values are modelled as follows.  None is the record PyNone, a    *)
(* list is PyList(<<...>>), a str is a TLA+ string, bytes are sequences of *)
(* numbers 0..255.  A call's outcome is a record with kind "return" or     *)
(* "raise", the messages it sent to the page (st.error, st.warning, ...)   *)
(* in field ui, and what it did to the objects it was handed.              *)
(***************************************************************************)
EXTENDS Integers, Sequences, FiniteSets, TLC

\* ------------------------------------------------------------------ bounds

\* The longest document of the model, in pages.
MaxPages == 2

\* ----------------------------------------------------------- Python values

PyNone == [tag |-> "None"]

PyList(s) == [tag |-> "list", items |-> s]

UI(kind, text) == [kind |-> kind, text |-> text]

\* ------------------------------------------------------ the template catalog

input_prompt_email ==
    "You are an IT Consulting Professional preparing a summary email for stakeholders about project understanding and next steps."

input_prompt1 ==
    "You are a Senior IT Consultant specializing in Business Requirements Document (BRD) analysis."

\* A catalog in which the CRD template is a copy of the BRD template.
input_prompt2_copy == input_prompt1

input_prompt2 ==
    "You are a Senior IT Consultant specializing in Customer Requirements Document (CRD) analysis."

input_prompt3 ==
    "You are a Senior Technical Architect and IT Consultant specializing in technical document analysis."

input_prompt4 ==
    "You are a Senior IT Project Manager and Business Analyst specializing in pre-execution project analysis."

input_prompt5 ==
    "You are a Senior IT Project Manager and Technical Architect specializing in project feasibility analysis."

input_prompt6 ==
    "You are a Senior Technical Architect and IT Consultant specializing in architecture and technology stack recommendations."

input_prompt_roadmap ==
    "You are a Senior IT Project Manager and Technical Architect specializing in implementation roadmap development."

\* ------------------------------------------------------ the uploaded stream

\* The first byte of a document the rasterizer can decode ('%' of "%PDF").
PdfMagic == 37

\* The rasters a page can hold: one byte stands for the page's content.
Pixels == {16, 200}

RECURSIVE SeqsUpTo(_, _)
SeqsUpTo(S, n) ==
    IF n = 0 THEN {<<>>}
    ELSE LET shorter == SeqsUpTo(S, n - 1)
         IN  shorter \cup {Append(s, x) : s \in shorter, x \in S}

\* What a user can upload: a decodable document of 0..MaxPages pages, a file
\* of garbage, and a file of 0 bytes.
Documents ==
    {<<PdfMagic>> \o pages : pages \in SeqsUpTo(Pixels, MaxPages)}
        \cup {<<71>>, <<>>}

\* An uploaded file object (Streamlit's UploadedFile, a BytesIO): its bytes
\* and its read position.
UploadedFile(data, pos) == [tag |-> "file", data |-> data, pos |-> pos]

\* A seek that leaves the read position where it was.
seek_nowhere(f, n) == f

\* uploaded_file.seek(n)
seek(f, n) == [f EXCEPT !.pos = n]

\* uploaded_file.read(): the bytes from the read position to the end; the
\* position moves to the end.
read(f) ==
    [bytes |-> SubSeq(f.data, f.pos + 1, Len(f.data)),
     file  |-> [f EXCEPT !.pos = Len(f.data)]]

\* --------------------------------------------- the rasterization capability

Return(v) == [kind |-> "return", value |-> v]

Raise(type, msg) == [kind |-> "raise", exc |-> [type |-> type, msg |-> msg]]

\* str(e)
str(e) == e.msg

\* pdf2image.convert_from_bytes(bytes): one image per page, in page order.
\* Without Poppler it raises PDFInfoNotInstalledError; on bytes that are no
\* document it raises PDFPageCountError.
convert_from_bytes(bytes, poppler) ==
    IF ~poppler
    THEN Raise("PDFInfoNotInstalledError",
               "Unable to get page count. Is poppler installed and in PATH?")
    ELSE IF bytes = <<>> \/ Head(bytes) # PdfMagic
    THEN Raise("PDFPageCountError", "Unable to get page count.")
    ELSE Return([i \in 1 .. Len(bytes) - 1 |->
                    [mode |-> "RGB", page |-> i, raster |-> bytes[i + 1]]])

\* first_page.save(img_byte_arr, format='JPEG'); img_byte_arr.getvalue():
\* the JPEG stream of one image, from the start-of-image marker to the
\* end-of-image marker.
save_JPEG(image) == <<255, 216, image.raster, 255, 217>>

\* ------------------------------------------------------------------ base64

B64Alphabet ==
    <<"A", "B", "C", "D", "E", "F", "G", "H", "I", "J", "K", "L", "M",
      "N", "O", "P", "Q", "R", "S", "T", "U", "V", "W", "X", "Y", "Z",
      "a", "b", "c", "d", "e", "f", "g", "h", "i", "j", "k", "l", "m",
      "n", "o", "p", "q", "r", "s", "t", "u", "v", "w", "x", "y", "z",
      "0", "1", "2", "3", "4", "5", "6", "7", "8", "9", "+", "/">>

B64Char(i) == B64Alphabet[i + 1]

\* base64.b64encode(bytes).decode(): three bytes make four characters, a
\* last group of one or two bytes is padded with "=".
RECURSIVE b64encode(_)
b64encode(b) ==
    IF Len(b) = 0 THEN ""
    ELSE IF Len(b) = 1
    THEN B64Char(b[1] \div 4) \o B64Char((b[1] % 4) * 16) \o "=="
    ELSE IF Len(b) = 2
    THEN B64Char(b[1] \div 4)
            \o B64Char((b[1] % 4) * 16 + (b[2] \div 16))
            \o B64Char((b[2] % 16) * 4) \o "="
    ELSE B64Char(b[1] \div 4)
            \o B64Char((b[1] % 4) * 16 + (b[2] \div 16))
            \o B64Char((b[2] % 16) * 4 + (b[3] \div 64))
            \o B64Char(b[3] % 64)
            \o b64encode(SubSeq(b, 4, Len(b)))

\* --------------------------------------------------------- input_pdf_setup

TroubleshootingSteps ==
    "**Troubleshooting Steps:** 1. Ensure the PDF file is not corrupted 2. Try with a different PDF file 3. Check if poppler-utils is properly installed 4. For Streamlit Cloud, ensure packages.txt contains 'poppler-utils'"

NoPagesWarning ==
    "No pages found in the PDF. Please check if the PDF file is valid."

\* A normalizer that takes the last page instead of the first.
first_page_last(images) == images[Len(images)]

\* first_page = images[0]
first_page(images) == images[1]

\* A payload whose data stops before the end of the JPEG stream.
pdf_parts_partial(image) ==
    PyList(<<[mime_type |-> "image/jpeg",
              data      |-> b64encode(SubSeq(save_JPEG(image), 1, 3))]>>)

\* pdf_parts: the payload list built from one page image.
pdf_parts(image) ==
    PyList(<<[mime_type |-> "image/jpeg",
              data      |-> b64encode(save_JPEG(image))]>>)

\* A normalizer without the `if not images` test of its own: a document of
\* no pages is reported the way a decode failure is.
input_pdf_setup_mergedFailures(uploaded_file, poppler) ==
    IF uploaded_file # PyNone
    THEN LET rd     == read(seek(uploaded_file, 0))
             images == convert_from_bytes(rd.bytes, poppler)
         IN  IF images.kind = "raise" \/ images.value = <<>>
             THEN Return(PyNone) @@
                  [ui   |-> <<UI("error", "PDF processing error: "
                                 \o (IF images.kind = "raise"
                                     THEN str(images.exc)
                                     ELSE "list index out of range")),
                              UI("info", TroubleshootingSteps)>>,
                   file |-> rd.file]
             ELSE Return(pdf_parts(first_page(images.value))) @@
                  [ui |-> <<>>, file |-> rd.file]
    ELSE Raise("FileNotFoundError", "No file uploaded") @@
         [ui |-> <<>>, file |-> uploaded_file]

\* A normalizer without the inner try: a decode failure reaches the outer
\* handler, which reports an unexpected error.
input_pdf_setup_outerOnly(uploaded_file, poppler) ==
    IF uploaded_file # PyNone
    THEN LET rd     == read(seek(uploaded_file, 0))
             images == convert_from_bytes(rd.bytes, poppler)
         IN  IF images.kind = "raise"
             THEN Return(PyNone) @@
                  [ui   |-> <<UI("error", "Unexpected error processing PDF: "
                                              \o str(images.exc)),
                              UI("info", "Please try uploading a different PDF file or contact support if the issue persists.")>>,
                   file |-> rd.file]
             ELSE IF images.value = <<>>
             THEN Return(PyNone) @@
                  [ui   |-> <<UI("warning", NoPagesWarning)>>,
                   file |-> rd.file]
             ELSE Return(pdf_parts(first_page(images.value))) @@
                  [ui |-> <<>>, file |-> rd.file]
    ELSE Raise("FileNotFoundError", "No file uploaded") @@
         [ui |-> <<>>, file |-> uploaded_file]

\* input_pdf_setup(uploaded_file), with Poppler installed or not.  The
\* outcome names what the call returned or raised, the messages it sent to
\* the page, and the uploaded file object as the call left it.
input_pdf_setup(uploaded_file, poppler) ==
    IF uploaded_file # PyNone
    THEN LET rd     == read(seek(uploaded_file, 0))
             images == convert_from_bytes(rd.bytes, poppler)
         IN  IF images.kind = "raise"
             THEN Return(PyNone) @@
                  [ui   |-> <<UI("error", "PDF processing error: "
                                              \o str(images.exc)),
                              UI("info", TroubleshootingSteps)>>,
                   file |-> rd.file]
             ELSE IF images.value = <<>>
             THEN Return(PyNone) @@
                  [ui   |-> <<UI("warning", NoPagesWarning)>>,
                   file |-> rd.file]
             ELSE Return(pdf_parts(first_page(images.value))) @@
                  [ui |-> <<>>, file |-> rd.file]
    ELSE Raise("FileNotFoundError", "No file uploaded") @@
         [ui |-> <<>>, file |-> uploaded_file]

\* ------------------------------------------------- the inference capability

\* What genai does in one call of get_gemini_response: it answers with a
\* text (at = "ok"), or one of its three steps raises an exception with a
\* message (at names the step).
GeminiTexts == {"RISK: LOW", "Error: Unable to process the document. Please check your API key and try again. Error details: 429 quota exceeded"}

GeminiErrors == {"API key not valid", "429 quota exceeded"}

Gemini ==
    [at : {"ok"}, val : GeminiTexts]
        \cup [at : {"generate_content"}, val : GeminiErrors]
        \cup {[at |-> "GenerativeModel", val |-> "Unknown model"],
              [at |-> "text", val |-> "The response was blocked"]}

\* pdf_content[0]
Subscript0(pdf_content) ==
    IF pdf_content = PyNone
    THEN Raise("TypeError", "'NoneType' object is not subscriptable")
    ELSE IF pdf_content.items = <<>>
    THEN Raise("IndexError", "list index out of range")
    ELSE Return(pdf_content.items[1])

\* An except branch that drops the exception's message.
GeminiFailure_generic(e, sent) ==
    Return("Error: Unable to process the document. Please check your API key and try again.") @@
    [ui   |-> <<UI("error", "Error generating response")>>,
     sent |-> sent]

\* The except branch of get_gemini_response.
GeminiFailure(e, sent) ==
    Return("Error: Unable to process the document. Please check your API key and try again. Error details: "
               \o str(e)) @@
    [ui   |-> <<UI("error", "Error generating response: " \o str(e))>>,
     sent |-> sent]

\* An invoker that trims and re-heads the text it got.
get_gemini_response_reheaded(context, pdf_content, prompt, genai) ==
    LET part == Subscript0(pdf_content)
    IN  IF genai.at = "ok" /\ part.kind = "return"
        THEN Return("## Analysis " \o genai.val) @@
             [ui |-> <<>>, sent |-> <<<<context, part.value, prompt>>>>]
        ELSE GeminiFailure(
                 IF genai.at = "GenerativeModel" \/ part.kind = "return"
                 THEN [type |-> "Exception", msg |-> genai.val]
                 ELSE part.exc,
                 IF genai.at # "GenerativeModel" /\ part.kind = "return"
                 THEN <<<<context, part.value, prompt>>>>
                 ELSE <<>>)

\* An invoker without the try: what genai raises reaches the caller.
get_gemini_response_noTry(context, pdf_content, prompt, genai) ==
    LET part == Subscript0(pdf_content)
    IN  IF genai.at = "ok" /\ part.kind = "return"
        THEN Return(genai.val) @@
             [ui |-> <<>>, sent |-> <<<<context, part.value, prompt>>>>]
        ELSE (IF genai.at = "GenerativeModel" \/ part.kind = "return"
              THEN Raise("Exception", genai.val)
              ELSE [kind |-> "raise", exc |-> part.exc]) @@
             [ui   |-> <<>>,
              sent |-> IF genai.at # "GenerativeModel" /\ part.kind = "return"
                       THEN <<<<context, part.value, prompt>>>>
                       ELSE <<>>]

\* An invoker that submits the request a second time when generating fails.
get_gemini_response_retry(context, pdf_content, prompt, genai) ==
    LET part == Subscript0(pdf_content)
        parts == <<context, part.value, prompt>>
    IN  IF genai.at = "GenerativeModel"
        THEN GeminiFailure([type |-> "Exception", msg |-> genai.val], <<>>)
        ELSE IF part.kind = "raise"
        THEN GeminiFailure(part.exc, <<>>)
        ELSE IF genai.at = "ok"
        THEN Return(genai.val) @@ [ui |-> <<>>, sent |-> <<parts>>]
        ELSE GeminiFailure([type |-> "Exception", msg |-> genai.val],
                           <<parts, parts>>)

\* An invoker that puts the template before the context and the page.
get_gemini_response_promptFirst(context, pdf_content, prompt, genai) ==
    LET part == Subscript0(pdf_content)
        parts == <<prompt, context, part.value>>
    IN  IF genai.at = "GenerativeModel"
        THEN GeminiFailure([type |-> "Exception", msg |-> genai.val], <<>>)
        ELSE IF part.kind = "raise"
        THEN GeminiFailure(part.exc, <<>>)
        ELSE IF genai.at = "ok"
        THEN Return(genai.val) @@ [ui |-> <<>>, sent |-> <<parts>>]
        ELSE GeminiFailure([type |-> "Exception", msg |-> genai.val],
                           <<parts>>)

\* get_gemini_response(context, pdf_content, prompt), with what genai does
\* in this call.  sent lists the requests that reached generate_content.
get_gemini_response(context, pdf_content, prompt, genai) ==
    IF genai.at = "GenerativeModel"
    THEN GeminiFailure([type |-> "Exception", msg |-> genai.val], <<>>)
    ELSE LET part == Subscript0(pdf_content)
         IN  IF part.kind = "raise"
             THEN GeminiFailure(part.exc, <<>>)
             ELSE LET parts == <<context, part.value, prompt>>
                  IN  IF genai.at = "ok"
                      THEN Return(genai.val) @@
                           [ui |-> <<>>, sent |-> <<parts>>]
                      ELSE GeminiFailure(
                               [type |-> "Exception", msg |-> genai.val],
                               <<parts>>)

\* ------------------------------------------------------------------- state

VARIABLES
    poppler,           \* whether Poppler is installed where the app runs
    pc,                \* where the script run is
    api_key,           \* the resolved API key of this run
    uploaded_file,     \* st.file_uploader's value: PyNone or the file object
    analysis_context,  \* st.text_area's value
    flags,             \* the buttons whose value is True in this run
    nested,            \* the result buttons whose value is True in this run
    prompts,           \* the script's globals input_prompt_*
    ui,                \* what this run has written to the page
    normalized,        \* this run's calls of input_pdf_setup
    analyzed,          \* this run's calls of get_gemini_response
    call,              \* the last direct call of one of the two functions
    par,               \* two analyses run side by side: streams and threads
    fs                 \* setup.py: the working directory and its calls

vars ==
    <<poppler, pc, api_key, uploaded_file, analysis_context, flags, nested,
      prompts, ui, normalized, analyzed, call, par, fs>>

\* The action buttons, by the variable that holds each one's value, with the
\* label the page shows.
ButtonLabel ==
    [submit1        |-> "BRD Analysis",
     submit2        |-> "CRD Analysis",
     submit3        |-> "Technical Document Analysis",
     submit4        |-> "Pre-Execution Questions",
     submit5        |-> "Project Feasibility",
     submit6        |-> "Architecture Recommendations",
     submit_roadmap |-> "Implementation Roadmap",
     submit_email   |-> "Generate Stakeholder Email"]

Buttons == DOMAIN ButtonLabel

Contexts == {"", "Focus on integration risks"}

PyStr(s) == [tag |-> "str", s |-> s]

Placeholder == "your_google_api_key_here"

\* What a key source can hold: nothing, or a string.
KeyValues == {PyNone, PyStr(""), PyStr(Placeholder), PyStr("AIzaSy-key")}

\* bool(v) of an optional string
Truthy(v) == v # PyNone /\ v # PyStr("")

\* The API key the script resolves from st.secrets, the environment and the
\* sidebar's text input, in that order.
ResolveApiKey(secret, env, typed) ==
    IF secret # PyNone THEN secret
    ELSE IF Truthy(env) THEN env
    ELSE typed

\* The page before its first run.
InitPage ==
    /\ poppler \in BOOLEAN
    /\ pc = "idle"
    /\ api_key = PyNone
    /\ uploaded_file = PyNone
    /\ analysis_context = ""
    /\ flags = {}
    /\ nested = {}
    /\ prompts = [input_prompt_email   |-> input_prompt_email,
                  input_prompt1        |-> input_prompt1,
                  input_prompt2        |-> input_prompt2,
                  input_prompt3        |-> input_prompt3,
                  input_prompt4        |-> input_prompt4,
                  input_prompt5        |-> input_prompt5,
                  input_prompt6        |-> input_prompt6,
                  input_prompt_roadmap |-> input_prompt_roadmap]
    /\ ui = <<>>
    /\ normalized = <<>>
    /\ analyzed = <<>>
    /\ call = [fn |-> "none"]

Init ==
    /\ InitPage
    /\ par = [streams |-> <<>>, th |-> <<>>]
    /\ fs = [disk |-> PyNone, log |-> <<>>]

\* ---------------------------------------------------------- the script run

\* The buttons a page shows below a result: a click on one of them is what
\* the next run can see.
Rendered(page) ==
    {page[i].text : i \in {j \in DOMAIN page : page[j].kind = "button"}}

\* A rerun is asked for: by a click on a button of the page, a new upload or
\* a changed context.  The page of the last run is discarded, and with it
\* the values its widgets had.
Rerun ==
    /\ pc \in {"idle", "done", "stopped"}
    /\ nested' \in SUBSET Rendered(ui)
    /\ flags' = {}
    /\ analysis_context' = ""
    /\ api_key' = PyNone
    /\ ui' = <<>>
    /\ normalized' = <<>>
    /\ analyzed' = <<>>
    /\ pc' = "rerun"
    /\ UNCHANGED <<poppler, uploaded_file, prompts, call, par, fs>>

\* The script starts with the values the widgets have in this run: the
\* uploaded file (the same object as in the last run, a new one, or none),
\* the context, and the buttons clicked.
StartRun ==
    /\ pc = "rerun"
    /\ uploaded_file' \in
           {uploaded_file, PyNone} \cup {UploadedFile(d, 0) : d \in Documents}
    /\ analysis_context' \in Contexts
    /\ flags' \in SUBSET Buttons
    /\ pc' = "configure"
    /\ UNCHANGED <<poppler, api_key, nested, prompts, ui, normalized,
                   analyzed, call, par, fs>>

\* The API key is found and handed to genai.configure, and the run goes on.
ConfigureKey ==
    /\ pc = "configure"
    /\ \E secret \in KeyValues, env \in KeyValues, typed \in KeyValues \ {PyNone} :
           /\ api_key' = ResolveApiKey(secret, env, typed)
           /\ Truthy(api_key') /\ api_key' # PyStr(Placeholder)
    /\ pc' = "widgets"
    /\ UNCHANGED <<poppler, uploaded_file, analysis_context, flags, nested,
                   prompts, ui, normalized, analyzed, call, par, fs>>

\* A script that reports the missing key and goes on to the page.
ConfigureKeyStop_goesOn ==
    /\ pc = "configure"
    /\ \E secret \in KeyValues, env \in KeyValues, typed \in KeyValues \ {PyNone} :
           /\ api_key' = ResolveApiKey(secret, env, typed)
           /\ ~(Truthy(api_key') /\ api_key' # PyStr(Placeholder))
    /\ ui' = Append(ui, UI("error", "Please configure your Google API Key"))
    /\ pc' = "widgets"
    /\ UNCHANGED <<poppler, uploaded_file, analysis_context, flags, nested,
                   prompts, normalized, analyzed, call, par, fs>>

\* No usable API key: the run reports it and stops (st.stop()).
ConfigureKeyStop ==
    /\ pc = "configure"
    /\ \E secret \in KeyValues, env \in KeyValues, typed \in KeyValues \ {PyNone} :
           /\ api_key' = ResolveApiKey(secret, env, typed)
           /\ ~(Truthy(api_key') /\ api_key' # PyStr(Placeholder))
    /\ ui' = Append(ui, UI("error", "Please configure your Google API Key"))
    /\ pc' = "stopped"
    /\ UNCHANGED <<poppler, uploaded_file, analysis_context, flags, nested,
                   prompts, normalized, analyzed, call, par, fs>>

\* The try block raises: st.secrets has no secrets file to read (no key is
\* resolved yet), or genai.configure raises on the key it is given.  The run
\* reports it and stops.
ConfigureKeyRaise ==
    /\ pc = "configure"
    /\ \/ /\ api_key' = PyNone
          /\ ui' = Append(ui, UI("error", "Error configuring API: "
                                              \o "No secrets found"))
       \/ /\ \E secret \in KeyValues, env \in KeyValues,
                typed \in KeyValues \ {PyNone} :
                 /\ api_key' = ResolveApiKey(secret, env, typed)
                 /\ Truthy(api_key') /\ api_key' # PyStr(Placeholder)
          /\ ui' = Append(ui, UI("error", "Error configuring API: "
                                              \o "configure failed"))
    /\ pc' = "stopped"
    /\ UNCHANGED <<poppler, uploaded_file, analysis_context, flags, nested,
                   prompts, normalized, analyzed, call, par, fs>>

\* The upload card reports whether a document is there.
Widgets ==
    /\ pc = "widgets"
    /\ ui' = Append(ui, IF uploaded_file # PyNone
                        THEN UI("success", "PDF Uploaded Successfully")
                        ELSE UI("info", "Please upload a PDF document to begin analysis"))
    /\ pc' = "email"
    /\ UNCHANGED <<poppler, api_key, uploaded_file, analysis_context, flags,
                   nested, prompts, normalized, analyzed, call, par, fs>>

\* ------------------------------------------------------------ the dispatch

\* A dispatch that does not look whether a document is there.
HasDocument_always(f) == TRUE

\* `if uploaded_file is not None`
HasDocument(f) == f # PyNone

\* A dispatch that calls get_gemini_response whatever input_pdf_setup
\* returned.
IsProcessed_always(pdf_content) == TRUE

\* `if pdf_content is not None`
IsProcessed(pdf_content) == pdf_content.value # PyNone

\* What a branch shows below its result: nothing, or a button and, in a run
\* that sees the button clicked, the response again for copying or download.
Export(button, response) ==
    IF button = "Copy Email"
    THEN <<UI("markdown", "---"),
           UI("markdown", "##### Copy Email to Clipboard"),
           UI("button", "Copy Email")>>
         \o (IF "Copy Email" \in nested
             THEN <<UI("code", response),
                    UI("success", "Email content copied to clipboard!")>>
             ELSE <<>>)
    ELSE IF button = "Download as Text"
    THEN <<UI("markdown", "---"),
           UI("markdown", "##### Download Implementation Roadmap"),
           UI("button", "Download as Text")>>
         \o (IF "Download as Text" \in nested
             THEN <<UI("download_button", response)>>
             ELSE <<>>)
    ELSE <<>>

\* The body of one branch of the dispatch: the branch of button `by`, which
\* passes `prompt`, heads its result with `subheader`, asks for a document
\* with `nofile`, shows `button` below its result and goes on at `next`.
Branch(by, prompt, subheader, nofile, button, next) ==
    IF HasDocument(uploaded_file)
    THEN LET pdf_content == input_pdf_setup(uploaded_file, poppler)
             entry == [by |-> by, arg |-> uploaded_file, out |-> pdf_content]
         IN  /\ normalized' = Append(normalized, entry)
             /\ uploaded_file' = pdf_content.file
             /\ IF pdf_content.kind = "raise"
                THEN /\ ui' = ui \o pdf_content.ui
                                 \o <<UI("exception", str(pdf_content.exc))>>
                     /\ pc' = "failed"
                     /\ UNCHANGED analyzed
                ELSE IF IsProcessed(pdf_content)
                THEN \E genai \in Gemini :
                        LET response == get_gemini_response(
                                analysis_context, pdf_content.value, prompt,
                                genai)
                        IN  /\ analyzed' = Append(analyzed,
                                   [by      |-> by,
                                    context |-> analysis_context,
                                    payload |-> pdf_content.value,
                                    prompt  |-> prompt,
                                    genai   |-> genai,
                                    out     |-> response])
                            /\ ui' = ui \o pdf_content.ui \o response.ui
                                        \o <<UI("subheader", subheader),
                                             UI("markdown", "---"),
                                             UI("markdown", response.value)>>
                                        \o Export(button, response.value)
                            /\ pc' = next
                ELSE /\ ui' = ui \o pdf_content.ui
                                 \o <<UI("error", "Failed to process the PDF. Please try uploading a different file.")>>
                     /\ pc' = next
                     /\ UNCHANGED analyzed
    ELSE /\ ui' = Append(ui, UI("write", nofile))
         /\ pc' = next
         /\ UNCHANGED <<uploaded_file, normalized, analyzed>>

\* A dispatch in which `if submit1` is an `elif` of `if submit_email`.
AfterEmail_elif == IF "submit_email" \in flags THEN "done" ELSE "chain"

\* Where the script goes on after the `if submit_email` statement: at the
\* `if submit1` statement, whatever submit_email was.
AfterEmail == "chain"

\* if submit_email: ...
SubmitEmail ==
    /\ pc = "email"
    /\ "submit_email" \in flags
    /\ Branch("submit_email", prompts.input_prompt_email,
              "Stakeholder Email Summary", "Please upload a document first",
              "Copy Email", AfterEmail)
    /\ UNCHANGED <<poppler, api_key, analysis_context, flags, nested, prompts,
                   call, par, fs>>

\* submit_email is False: the statement is skipped.
SkipEmail ==
    /\ pc = "email"
    /\ "submit_email" \notin flags
    /\ pc' = AfterEmail
    /\ UNCHANGED <<poppler, api_key, uploaded_file, analysis_context, flags,
                   nested, prompts, ui, normalized, analyzed, call, par, fs>>

\* The `if submit1: ... elif submit2: ... elif submit_roadmap:` statement
\* takes the branch of the first button, in this order, that is True.
ChainOrder ==
    <<"submit1", "submit2", "submit3", "submit4", "submit5", "submit6",
      "submit_roadmap">>

\* Whether the statement reaches the test of button b and finds it True.
Elif(b) ==
    /\ b \in flags
    /\ \E i \in DOMAIN ChainOrder :
          /\ ChainOrder[i] = b
          /\ \A j \in 1 .. i - 1 : ChainOrder[j] \notin flags

\* A chain whose branch writes the user's context into the BRD template.
ChainFrame_contextInTemplate ==
    /\ prompts' = [prompts EXCEPT !.input_prompt1 = @ \o analysis_context]
    /\ UNCHANGED <<poppler, api_key, analysis_context, flags, nested, call,
                   par, fs>>

\* What a branch of the chain leaves alone: the script's globals.
ChainFrame ==
    UNCHANGED <<poppler, api_key, analysis_context, flags, nested, prompts,
                call, par, fs>>

\* if submit1: ...
Submit1 ==
    /\ pc = "chain"
    /\ Elif("submit1")
    /\ Branch("submit1", prompts.input_prompt1,
              "BRD Analysis & Business Requirements",
              "Please upload a BRD document first", "", "done")
    /\ ChainFrame

\* A CRD branch that passes the BRD template.
Submit2_prompt1 ==
    /\ pc = "chain"
    /\ Elif("submit2")
    /\ Branch("submit2", prompts.input_prompt1,
              "CRD Analysis & Solution Mapping",
              "Please upload a CRD document first", "", "done")
    /\ ChainFrame

\* elif submit2: ...
Submit2 ==
    /\ pc = "chain"
    /\ Elif("submit2")
    /\ Branch("submit2", prompts.input_prompt2,
              "CRD Analysis & Solution Mapping",
              "Please upload a CRD document first", "", "done")
    /\ ChainFrame

\* elif submit3: ...
Submit3 ==
    /\ pc = "chain"
    /\ Elif("submit3")
    /\ Branch("submit3", prompts.input_prompt3,
              "Technical Document Analysis",
              "Please upload a technical document first", "", "done")
    /\ ChainFrame

\* elif submit4: ...
Submit4 ==
    /\ pc = "chain"
    /\ Elif("submit4")
    /\ Branch("submit4", prompts.input_prompt4,
              "Pre-Execution Questions & Clarifications",
              "Please upload a document first", "", "done")
    /\ ChainFrame

\* elif submit5: ...
Submit5 ==
    /\ pc = "chain"
    /\ Elif("submit5")
    /\ Branch("submit5", prompts.input_prompt5,
              "Project Feasibility Analysis",
              "Please upload a document first", "", "done")
    /\ ChainFrame

\* elif submit6: ...
Submit6 ==
    /\ pc = "chain"
    /\ Elif("submit6")
    /\ Branch("submit6", prompts.input_prompt6,
              "Architecture & Technology Recommendations",
              "Please upload a document first", "", "done")
    /\ ChainFrame

\* elif submit_roadmap: ...
SubmitRoadmap ==
    /\ pc = "chain"
    /\ Elif("submit_roadmap")
    /\ Branch("submit_roadmap", prompts.input_prompt_roadmap,
              "Implementation Roadmap & Project Planning",
              "Please upload a document first", "Download as Text", "done")
    /\ ChainFrame

\* None of the seven buttons is True: the script ends.
NoSubmit ==
    /\ pc = "chain"
    /\ \A i \in DOMAIN ChainOrder : ChainOrder[i] \notin flags
    /\ pc' = "done"
    /\ UNCHANGED <<poppler, api_key, uploaded_file, analysis_context, flags,
                   nested, prompts, ui, normalized, analyzed, call, par, fs>>

Next ==
    \/ Rerun
    \/ StartRun
    \/ ConfigureKey
    \/ ConfigureKeyStop
    \/ ConfigureKeyRaise
    \/ Widgets
    \/ SubmitEmail
    \/ SkipEmail
    \/ Submit1
    \/ Submit2
    \/ Submit3
    \/ Submit4
    \/ Submit5
    \/ Submit6
    \/ SubmitRoadmap
    \/ NoSubmit

Spec == Init /\ [][Next]_vars

\* ------------------------------------------- the two functions, called alone

\* The file objects a caller can hand to input_pdf_setup: any document, read
\* up to any position.
FileObjects ==
    {UploadedFile(d, p) : d \in Documents, p \in 0 .. MaxPages + 1}

\* The values a caller can hand to get_gemini_response as pdf_content.
PdfContents ==
    {PyNone, PyList(<<>>)}
        \cup {pdf_parts([mode |-> "RGB", page |-> 1, raster |-> r]) :
                 r \in Pixels}

\* input_pdf_setup(f), for a file object or None.
CallInputPdfSetup ==
    /\ \E f \in {g \in FileObjects : g.pos <= Len(g.data)} \cup {PyNone} :
           call' = [fn  |-> "input_pdf_setup",
                    arg |-> f,
                    out |-> input_pdf_setup(f, poppler)]
    /\ UNCHANGED <<poppler, pc, api_key, uploaded_file, analysis_context,
                   flags, nested, prompts, ui, normalized, analyzed,
                   par, fs>>

\* get_gemini_response(context, pdf_content, prompt), whatever genai does.
CallGetGeminiResponse ==
    /\ \E context \in Contexts, pdf_content \in PdfContents,
          name \in DOMAIN prompts, genai \in Gemini :
           call' = [fn          |-> "get_gemini_response",
                    context     |-> context,
                    pdf_content |-> pdf_content,
                    prompt      |-> prompts[name],
                    genai       |-> genai,
                    out         |-> get_gemini_response(
                                        context, pdf_content, prompts[name],
                                        genai)]
    /\ UNCHANGED <<poppler, pc, api_key, uploaded_file, analysis_context,
                   flags, nested, prompts, ui, normalized, analyzed,
                   par, fs>>

NextFn ==
    \/ CallInputPdfSetup
    \/ CallGetGeminiResponse

SpecFn == Init /\ [][NextFn]_vars

\* ------------------------------------------- two analyses side by side

\* Two callers run one analysis each at the same time, as two threads of the
\* server process do: each executes the statements of input_pdf_setup and
\* then those of get_gemini_response, and the statements of the two
\* interleave.  The stream objects are shared memory; everything else a
\* thread holds is local to its call.
Threads == {1, 2}

\* A thread that is about to call input_pdf_setup on a stream.
Thread(stream, context, name) ==
    [pc          |-> "seek",
     stream      |-> stream,
     context     |-> context,
     name        |-> name,
     bytes       |-> <<>>,
     pdf_content |-> [kind |-> "none"],
     status      |-> "none",
     genai       |-> [at |-> "none"],
     response    |-> [kind |-> "none"]]

\* Two stream objects with the same bytes; the second thread analyses
\* either the stream of the first or the other one.
InitPar ==
    /\ InitPage
    /\ \E data \in Documents, shared \in BOOLEAN :
           \E pos \in 0..Len(data) :
               par = [streams |-> <<UploadedFile(data, pos),
                                    UploadedFile(data, pos)>>,
                      th      |-> <<Thread(1, "Focus on integration risks",
                                           "input_prompt1"),
                                    Thread(IF shared THEN 1 ELSE 2, "",
                                           "input_prompt_email")>>]
    /\ fs = [disk |-> PyNone, log |-> <<>>]

\* The lines of input_pdf_setup after the read, on the bytes that were read.
normalize_bytes(bytes, pop) ==
    LET out == input_pdf_setup(UploadedFile(bytes, 0), pop)
    IN  [kind |-> out.kind, value |-> out.value, ui |-> out.ui]

ParFrame ==
    UNCHANGED <<poppler, pc, api_key, uploaded_file, analysis_context, flags,
                nested, prompts, ui, normalized, analyzed, call, fs>>

\* uploaded_file.seek(0)
ParSeek(t) ==
    /\ par.th[t].pc = "seek"
    /\ par' = [par EXCEPT !.streams[par.th[t].stream] = seek(@, 0),
                          !.th[t].pc = "read"]
    /\ ParFrame

\* uploaded_file.read(), the argument of convert_from_bytes
ParRead(t) ==
    /\ par.th[t].pc = "read"
    /\ LET rd == read(par.streams[par.th[t].stream])
       IN  par' = [par EXCEPT !.streams[par.th[t].stream] = rd.file,
                              !.th[t].bytes = rd.bytes,
                              !.th[t].pc = "convert"]
    /\ ParFrame

\* convert_from_bytes and the rest of input_pdf_setup; the caller goes on to
\* get_gemini_response when it got a payload.
ParConvert(t) ==
    /\ par.th[t].pc = "convert"
    /\ LET pdf_content == normalize_bytes(par.th[t].bytes, poppler)
       IN  par' = [par EXCEPT !.th[t].pdf_content = pdf_content,
                              !.th[t].pc = IF pdf_content.value # PyNone
                                           THEN "submit"
                                           ELSE "done"]
    /\ ParFrame

\* The caller enters get_gemini_response: the request is pending.
ParSubmit(t) ==
    /\ par.th[t].pc = "submit"
    /\ par' = [par EXCEPT !.th[t].status = "Pending",
                          !.th[t].pc = "await"]
    /\ ParFrame

\* A request is settled by what get_gemini_response returned.
Settled(response) ==
    IF response.ui = <<>> THEN "Succeeded" ELSE "Failed"

\* get_gemini_response returns, whatever genai did.
ParRespond(t) ==
    /\ par.th[t].pc = "await"
    /\ \E genai \in Gemini :
           LET response == get_gemini_response(
                               par.th[t].context,
                               par.th[t].pdf_content.value,
                               prompts[par.th[t].name], genai)
           IN  par' = [par EXCEPT !.th[t].genai = genai,
                                  !.th[t].response = response,
                                  !.th[t].status = Settled(response),
                                  !.th[t].pc = "done"]
    /\ ParFrame

NextPar ==
    \E t \in Threads :
        \/ ParSeek(t)
        \/ ParRead(t)
        \/ ParConvert(t)
        \/ ParSubmit(t)
        \/ ParRespond(t)

SpecPar == InitPar /\ [][NextPar]_vars

\* ------------------------------------------------- setup.py: the secrets file

\* How many calls and edits one behaviour of the setup script records.
MaxEvents == 3

secrets_dir == ".streamlit"

secrets_file == secrets_dir \o "/" \o "secrets.toml"

template_content ==
    "# Google API Key for Gemini AI # Replace 'your_google_api_key_here' with your actual API key GOOGLE_API_KEY = \"your_google_api_key_here\""

\* What a path of the working directory can be: nothing, a directory, a
\* regular file with its content, or a symbolic link, whose target is a file
\* with its content or is missing (content PyNone).
Entry(kind, content) == [kind |-> kind, content |-> content]

Absent == Entry("absent", PyNone)

Directory == Entry("dir", PyNone)

SecretsContents ==
    {PyStr(""), PyStr(template_content),
     PyStr("GOOGLE_API_KEY = \"AIzaSy-key\"")}

\* The working directory: what .streamlit is and, when it is a directory,
\* what .streamlit/secrets.toml is.
Disks ==
    {[dir |-> Absent, file |-> Absent],
     [dir |-> Entry("file", PyStr("")), file |-> Absent]}
        \cup {[dir |-> Directory, file |-> e] :
                 e \in {Absent, Directory, Entry("link", PyNone)}
                          \cup {Entry(k, c) : k \in {"file", "link"},
                                              c \in SecretsContents}}

\* os.path.exists(path): it follows symbolic links, and is False for a link
\* whose target is missing.
exists(entry) ==
    \/ entry.kind = "dir"
    \/ entry.kind \in {"file", "link"} /\ entry.content # PyNone

\* with open(path, 'w') as f: f.write(text), where the directory of the path
\* is `dir`: the file is created or truncated, through a link if it is one.
open_w_write(dir, entry, text) ==
    IF dir.kind # "dir"
    THEN Raise("NotADirectoryError", "Not a directory")
    ELSE IF entry.kind = "dir"
    THEN Raise("IsADirectoryError", "Is a directory")
    ELSE Return(Entry(IF entry.kind = "link" THEN "link" ELSE "file",
                      PyStr(text)))

\* A setup that writes the template whether or not the file is there.
create_secrets_template_overwrite(disk) ==
    LET made == IF ~exists(disk.dir) THEN Directory ELSE disk.dir
        wrote == open_w_write(made, disk.file, template_content)
    IN  IF wrote.kind = "raise"
        THEN [kind   |-> "raise", exc |-> wrote.exc,
              disk   |-> [disk EXCEPT !.dir = made],
              prints |-> <<>>]
        ELSE [kind   |-> "return", value |-> PyNone,
              disk   |-> [dir |-> made, file |-> wrote.value],
              prints |-> <<"Created template: " \o secrets_file>>]

\* create_secrets_template(), in the working directory `disk`: what it
\* returns or raises, what it prints, and the working directory it leaves.
create_secrets_template(disk) ==
    LET made   == IF ~exists(disk.dir) THEN Directory ELSE disk.dir
        mkdir  == IF ~exists(disk.dir)
                  THEN <<"Created directory: " \o secrets_dir>>
                  ELSE <<>>
        there  == made.kind = "dir" /\ exists(disk.file)
    IN  IF ~there
        THEN LET wrote == open_w_write(made, disk.file, template_content)
             IN  IF wrote.kind = "raise"
                 THEN [kind   |-> "raise", exc |-> wrote.exc,
                       disk   |-> [disk EXCEPT !.dir = made],
                       prints |-> mkdir]
                 ELSE [kind   |-> "return", value |-> PyNone,
                       disk   |-> [dir |-> made, file |-> wrote.value],
                       prints |-> mkdir \o
                           <<"Created template: " \o secrets_file,
                             "Please edit this file and add your actual API key">>]
        ELSE [kind   |-> "return", value |-> PyNone,
              disk   |-> [disk EXCEPT !.dir = made],
              prints |-> mkdir \o
                  <<"Secrets file already exists: " \o secrets_file>>]

\* The setup script is run in some working directory.
InitSetup ==
    /\ InitPage
    /\ par = [streams |-> <<>>, th |-> <<>>]
    /\ fs \in [disk : Disks, log : {<<>>}]

SetupFrame ==
    UNCHANGED <<poppler, pc, api_key, uploaded_file, analysis_context, flags,
                nested, prompts, ui, normalized, analyzed, call, par>>

\* The user answers "y": create_secrets_template() is called.
CallCreateSecretsTemplate ==
    /\ Len(fs.log) < MaxEvents
    /\ LET out == create_secrets_template(fs.disk)
       IN  fs' = [disk |-> out.disk,
                  log  |-> Append(fs.log, [op     |-> "call",
                                           before |-> fs.disk,
                                           out    |-> out])]
    /\ SetupFrame

\* Between two runs of the setup script the user edits the secrets file.
EditSecrets ==
    /\ Len(fs.log) < MaxEvents
    /\ fs.disk.file.kind \in {"file", "link"}
    /\ fs.disk.file.content # PyNone
    /\ \E c \in SecretsContents \ {fs.disk.file.content} :
           LET edited == [fs.disk EXCEPT !.file.content = c]
           IN  fs' = [disk |-> edited,
                      log  |-> Append(fs.log, [op     |-> "edit",
                                               before |-> fs.disk,
                                               out    |-> [disk |-> edited]])]
    /\ SetupFrame

NextSetup ==
    \/ CallCreateSecretsTemplate
    \/ EditSecrets

SpecSetup == InitSetup /\ [][NextSetup]_vars

\* ------------------------------------------------------------- properties

\* What a call shows its caller and the page: what it returned or raised,
\* and the messages it wrote.
Observable(out) ==
    IF out.kind = "return"
    THEN [kind |-> "return", value |-> out.value, ui |-> out.ui]
    ELSE [kind |-> "raise", exc |-> out.exc, ui |-> out.ui]

IsNormalize == call.fn = "input_pdf_setup"

IsAnalyze == call.fn = "get_gemini_response"

\* What the rasterizer makes of a file's bytes, read from their origin.
Decoded(f) == convert_from_bytes(f.data, poppler)

\* The failure classes of the normalizer, read from an outcome: the class is
\* the handler that wrote the messages.
Classify(out) ==
    IF out.kind = "raise" THEN "Raised"
    ELSE IF out.value # PyNone THEN "Payload"
    ELSE IF out.ui = <<UI("warning", NoPagesWarning)>> THEN "EmptyDocument"
    ELSE IF /\ Len(out.ui) = 2
            /\ out.ui[1].kind = "error"
            /\ out.ui[2] = UI("info", TroubleshootingSteps)
         THEN "CorruptDocument"
    ELSE "Other"

\* Whether something raised inside get_gemini_response's try, and the
\* message of the exception that was raised first.
InferenceFailed(c) ==
    c.genai.at # "ok" \/ Subscript0(c.pdf_content).kind = "raise"

OriginalMessage(c) ==
    IF c.genai.at = "GenerativeModel" THEN c.genai.val
    ELSE IF Subscript0(c.pdf_content).kind = "raise"
    THEN Subscript0(c.pdf_content).exc.msg
    ELSE c.genai.val

\* Every outcome of a call in which genai answered with a text.
SuccessOutcomes ==
    {Observable(get_gemini_response(c, p, prompts[n], g)) :
        c \in Contexts,
        p \in {q \in PdfContents : Subscript0(q).kind = "return"},
        n \in DOMAIN prompts,
        g \in {h \in Gemini : h.at = "ok"}}

\* C1: whenever something raises inside get_gemini_response (building the
\* model, reading pdf_content[0], generating content, reading the response
\* text), the call returns instead of raising; what it returns and what it
\* reports with st.error both carry the exception's message; and the outcome
\* (the returned string together with the st.error report) is the outcome of
\* no successful call.
C1_FailureIsReturned ==
    (IsAnalyze /\ InferenceFailed(call)) =>
        /\ call.out.kind = "return"
        /\ call.out.value =
               "Error: Unable to process the document. Please check your API key and try again. Error details: "
                   \o OriginalMessage(call)
        /\ call.out.ui =
               <<UI("error", "Error generating response: "
                                 \o OriginalMessage(call))>>
        /\ Observable(call.out) \notin SuccessOutcomes

\* A failed call whose returned string is also a text genai can answer with:
\* the st.error report is what tells the two apart.
C1_Witness ==
    /\ IsAnalyze
    /\ call.genai.at = "generate_content"
    /\ call.out.sent # <<>>
    /\ call.out.kind = "return"
    /\ call.out.value \in GeminiTexts

\* C2: whenever genai answers a request with a text T, get_gemini_response
\* returns exactly T and reports nothing, for every context, payload and
\* prompt.
C2_PassThrough ==
    (IsAnalyze /\ call.genai.at = "ok" /\ call.out.sent # <<>>) =>
        /\ call.out.kind = "return"
        /\ call.out.value = call.genai.val
        /\ call.out.ui = <<>>

C2_Witness ==
    /\ IsAnalyze
    /\ call.genai = [at |-> "ok", val |-> "RISK: LOW"]
    /\ call.context # ""
    /\ call.out.value = "RISK: LOW"

\* C3: for every document that rasterizes to n >= 1 pages, input_pdf_setup
\* returns the payload of page 1: the base64 text of page 1's JPEG, the same
\* payload as for every other document with that first page.
C3_FirstPageOnly ==
    (/\ IsNormalize
     /\ call.arg # PyNone
     /\ Decoded(call.arg).kind = "return"
     /\ Len(Decoded(call.arg).value) >= 1) =>
        /\ call.out.kind = "return"
        /\ call.out.value =
               PyList(<<[mime_type |-> "image/jpeg",
                         data |-> b64encode(<<255, 216, call.arg.data[2],
                                              255, 217>>)]>>)
        /\ \A d \in Documents :
              (Len(d) >= 2 /\ d[1] = PdfMagic /\ d[2] = call.arg.data[2]) =>
                  input_pdf_setup(UploadedFile(d, 0), poppler).value
                      = call.out.value

\* A document of two different pages, handed over with its read position
\* at the end.
C3_Witness ==
    /\ IsNormalize
    /\ call.arg # PyNone
    /\ Len(call.arg.data) = 3
    /\ call.arg.data[2] # call.arg.data[3]
    /\ call.arg.pos = 3
    /\ call.out.kind = "return"
    /\ call.out.value # PyNone

\* C4: when the rasterizer decodes the document into zero pages,
\* input_pdf_setup fails as EmptyDocument (it returns None after the "No
\* pages found" warning), and that outcome differs from the outcome of every
\* decode failure.
C4_EmptyDocument ==
    (/\ IsNormalize
     /\ call.arg # PyNone
     /\ Decoded(call.arg).kind = "return"
     /\ Decoded(call.arg).value = <<>>) =>
        /\ Classify(call.out) = "EmptyDocument"
        /\ \A g \in FileObjects :
              (g.pos <= Len(g.data) /\ Decoded(g).kind = "raise") =>
                  /\ Classify(input_pdf_setup(g, poppler)) # "EmptyDocument"
                  /\ Observable(input_pdf_setup(g, poppler))
                         # Observable(call.out)

C4_Witness ==
    /\ IsNormalize
    /\ call.arg # PyNone
    /\ call.arg.data = <<PdfMagic>>
    /\ poppler
    /\ call.out.kind = "return"
    /\ call.out.value = PyNone
    /\ call.out.ui = <<UI("warning", NoPagesWarning)>>

\* C5: when the rasterizer cannot decode the bytes (garbage, or a file of 0
\* bytes), input_pdf_setup fails as CorruptDocument (it returns None after
\* the "PDF processing error" report, which carries the decode failure's
\* message) and returns no payload.
C5_CorruptDocument ==
    (/\ IsNormalize
     /\ call.arg # PyNone
     /\ Decoded(call.arg).kind = "raise"
     /\ Decoded(call.arg).exc.type = "PDFPageCountError") =>
        /\ call.out.kind = "return"
        /\ call.out.value = PyNone
        /\ Classify(call.out) = "CorruptDocument"
        /\ call.out.ui[1].text =
               "PDF processing error: " \o Decoded(call.arg).exc.msg

\* The file of 0 bytes.
C5_Witness ==
    /\ IsNormalize
    /\ call.arg # PyNone
    /\ call.arg.data = <<>>
    /\ poppler
    /\ call.out.kind = "return"
    /\ call.out.value = PyNone
    /\ Len(call.out.ui) = 2

\* C6: in a run without an uploaded document, whichever buttons are True,
\* neither input_pdf_setup nor get_gemini_response is called.
C6_NoDocumentNoCall ==
    (pc \in {"configure", "widgets", "email", "chain", "done", "stopped",
             "failed"}
         /\ uploaded_file = PyNone) =>
        /\ normalized = <<>>
        /\ analyzed = <<>>

\* A finished run with every button True and no document: each of the two
\* branches taken has only asked for a document.
C6_Witness ==
    /\ pc = "done"
    /\ uploaded_file = PyNone
    /\ flags = Buttons
    /\ ui = <<UI("info", "Please upload a PDF document to begin analysis"),
              UI("write", "Please upload a document first"),
              UI("write", "Please upload a BRD document first")>>

\* A document the rasterizer turns into at least one page.
ValidDocument(f) ==
    f # PyNone /\ Len(f.data) >= 2 /\ f.data[1] = PdfMagic

\* C7, as claimed: a finished run with a valid document and at least one
\* button True has made exactly one inference call.
C7_ExactlyOneCall ==
    (pc = "done" /\ poppler /\ ValidDocument(uploaded_file) /\ flags # {}) =>
        Len(analyzed) = 1

\* C7, amended: such a run has made one inference call when submit_email is
\* False or the only button that is True, and two when submit_email is True
\* together with another button: the email branch's and that of the first
\* True button of the elif chain.
C7_OneCallPerStatement ==
    (pc = "done" /\ poppler /\ ValidDocument(uploaded_file) /\ flags # {}) =>
        /\ Len(analyzed) =
               IF "submit_email" \in flags /\ flags # {"submit_email"}
               THEN 2 ELSE 1
        /\ Len(normalized) = Len(analyzed)
        /\ \A i \in DOMAIN analyzed : analyzed[i].by \in flags
        /\ \A i, j \in DOMAIN analyzed :
              i # j => analyzed[i].by # analyzed[j].by

\* Stakeholder email and two analyses clicked: the email branch and the CRD
\* branch have each made their call, the feasibility branch none.
C7_Witness ==
    /\ pc = "done"
    /\ poppler
    /\ ValidDocument(uploaded_file)
    /\ flags = {"submit_email", "submit2", "submit5"}
    /\ Len(analyzed) = 2
    /\ analyzed[1].by = "submit_email"
    /\ analyzed[2].by = "submit2"

\* The template of each action, by the label of its button.
TemplateOf ==
    [l \in {ButtonLabel[b] : b \in Buttons} |->
        CASE l = "BRD Analysis"                -> input_prompt1
          [] l = "CRD Analysis"                -> input_prompt2
          [] l = "Technical Document Analysis" -> input_prompt3
          [] l = "Pre-Execution Questions"     -> input_prompt4
          [] l = "Project Feasibility"         -> input_prompt5
          [] l = "Architecture Recommendations" -> input_prompt6
          [] l = "Implementation Roadmap"      -> input_prompt_roadmap
          [] l = "Generate Stakeholder Email"  -> input_prompt_email]

\* C8: every inference call passes the template of the action whose button
\* started it, and that template is what reaches generate_content as the
\* request's last part.
C8_TemplateOfAction ==
    \A i \in DOMAIN analyzed :
        /\ analyzed[i].prompt = TemplateOf[ButtonLabel[analyzed[i].by]]
        /\ \A k \in DOMAIN analyzed[i].out.sent :
              analyzed[i].out.sent[k][3]
                  = TemplateOf[ButtonLabel[analyzed[i].by]]

\* A CRD analysis whose request reached generate_content with the CRD
\* template.
C8_Witness ==
    /\ pc = "done"
    /\ Len(analyzed) = 1
    /\ analyzed[1].by = "submit2"
    /\ analyzed[1].out.sent # <<>>
    /\ analyzed[1].out.sent[1][3] = input_prompt2

\* C9: the template of every action is a non-empty string, and the
\* templates of two different actions are different strings, in the catalog
\* and in what the branches of two actions pass to a call.  (The model
\* holds the opening sentence of each template, so templates that differ
\* here differ in the source.)
C9_CatalogInvariant ==
    /\ DOMAIN prompts =
           {"input_prompt_email", "input_prompt1", "input_prompt2",
            "input_prompt3", "input_prompt4", "input_prompt5",
            "input_prompt6", "input_prompt_roadmap"}
    /\ \A a \in DOMAIN prompts : prompts[a] # "" /\ Len(prompts[a]) > 0
    /\ \A a, b \in DOMAIN prompts : a # b => prompts[a] # prompts[b]
    /\ \A i, j \in DOMAIN analyzed :
          /\ analyzed[i].prompt # ""
          /\ analyzed[i].by # analyzed[j].by =>
                 analyzed[i].prompt # analyzed[j].prompt

\* One run that has passed two templates of the catalog.
C9_Witness ==
    /\ pc = "done"
    /\ Len(analyzed) = 2
    /\ analyzed[1].prompt = prompts.input_prompt_email
    /\ analyzed[2].prompt = prompts.input_prompt_roadmap
    /\ analyzed[1].prompt # analyzed[2].prompt

\* C10, as claimed: neither function ever raises, for any argument, an
\* absent document included.
C10_NeverRaises ==
    (IsNormalize \/ IsAnalyze) => call.out.kind = "return"

\* C10, amended: get_gemini_response returns for every argument, and
\* input_pdf_setup returns a payload or None for every uploaded file; for an
\* absent document (None) input_pdf_setup raises FileNotFoundError.
C10_ReturnsUnlessNoFile ==
    /\ IsAnalyze => call.out.kind = "return"
    /\ (IsNormalize /\ call.arg # PyNone) =>
           /\ call.out.kind = "return"
           /\ Classify(call.out)
                  \in {"Payload", "EmptyDocument", "CorruptDocument"}
    /\ (IsNormalize /\ call.arg = PyNone) =>
           /\ call.out.kind = "raise"
           /\ call.out.exc = [type |-> "FileNotFoundError",
                              msg  |-> "No file uploaded"]

\* A failure of the rasterizer without Poppler, returned as None.
C10_Witness ==
    /\ IsNormalize
    /\ call.arg # PyNone
    /\ ~poppler
    /\ call.out.kind = "return"
    /\ call.out.value = PyNone

\* Whether the rasterizer fails on a file's bytes for want of Poppler, and
\* whether it fails on them because they are not a document.
PopplerMissing(f) ==
    /\ Decoded(f).kind = "raise"
    /\ Decoded(f).exc.type = "PDFInfoNotInstalledError"

CorruptBytes(f) ==
    /\ convert_from_bytes(f.data, TRUE).kind = "raise"
    /\ convert_from_bytes(f.data, TRUE).exc.type = "PDFPageCountError"

\* C11, as claimed: when the rasterizer fails because Poppler is absent,
\* input_pdf_setup does not report CorruptDocument, and what it returns and
\* writes differs from what it returns and writes for corrupt bytes with
\* Poppler present.
C11_MissingDependencyDistinct ==
    (/\ IsNormalize
     /\ call.arg # PyNone
     /\ PopplerMissing(call.arg)) =>
        /\ Classify(call.out) # "CorruptDocument"
        /\ \A g \in FileObjects \ {PyNone} :
               CorruptBytes(g) =>
                   /\ Observable(call.out)
                          # Observable(input_pdf_setup(g, TRUE))
                   /\ Classify(call.out)
                          # Classify(input_pdf_setup(g, TRUE))

\* The states of a thread's analysis request, and the requests of one call
\* of get_gemini_response that reached generate_content.
Terminal == {"Succeeded", "Failed"}

C12_Request(t) ==
    LET th == par.th[t]
    IN  /\ th.status \in {"none", "Pending"} \cup Terminal
        /\ th.status = "none" <=> th.pc \in {"seek", "read", "convert",
                                             "submit"}
                                      \/ (th.pc = "done"
                                              /\ th.pdf_content.value = PyNone)
        /\ th.status = "Pending" <=> th.pc = "await"
        /\ th.status = "Pending" => th.response = [kind |-> "none"]
        /\ th.status \in Terminal =>
               /\ th.pc = "done"
               /\ th.response.kind = "return"
               /\ Len(th.response.sent) <= 1
               /\ th.genai.at # "GenerativeModel" =>
                      Len(th.response.sent) = 1
               /\ th.status = "Succeeded" <=> th.genai.at = "ok"

C12_Transition(t) ==
    /\ par.th[t].status \in Terminal => par'.th[t] = par.th[t]
    /\ (par.th[t].status = "Pending" /\ par'.th[t] # par.th[t]) =>
           par'.th[t].status \in Terminal
    /\ par.th[t].status = "none" =>
           par'.th[t].status \in {"none", "Pending"}

\* C12: an analysis request is Pending from the call of get_gemini_response
\* until it returns, and is then Succeeded or Failed for good: the step that
\* ends Pending is the first response, a settled request never changes
\* again, and one request reaches generate_content at most once (exactly
\* once unless building the model raised), also when it fails.
C12_PendingThenTerminal ==
    /\ [](\A t \in Threads : C12_Request(t))
    /\ [][\A t \in Threads : C12_Transition(t)]_vars

\* One request failed in generate_content after one submission, while the
\* other succeeded.
C12_Witness ==
    /\ par.th # <<>>
    /\ par.th[1].status = "Failed"
    /\ par.th[1].genai.at = "generate_content"
    /\ Len(par.th[1].response.sent) = 1
    /\ par.th[2].status = "Succeeded"

\* C13: input_pdf_setup reads the uploaded stream from its origin wherever
\* the read position was on entry: each normalization of a run has the
\* outcome the stream's bytes have when read from position 0, and a second
\* normalization of the same stream (whose position the first one left at
\* the end) has the same outcome as the first.
C13_ReadsFromOrigin ==
    \A i \in DOMAIN normalized :
        /\ Observable(normalized[i].out)
               = Observable(input_pdf_setup(
                                UploadedFile(normalized[i].arg.data, 0),
                                poppler))
        /\ \A j \in DOMAIN normalized :
               (i < j /\ normalized[j].arg = normalized[i].out.file) =>
                   Observable(normalized[j].out)
                       = Observable(normalized[i].out)

\* A run that normalizes twice a two-page stream an earlier run had read to
\* its end, with a payload both times.
C13_Witness ==
    /\ Len(normalized) = 2
    /\ Len(normalized[1].arg.data) = 3
    /\ normalized[1].arg.pos = 3
    /\ normalized[2].arg = normalized[1].out.file
    /\ normalized[1].out.value # PyNone
    /\ normalized[2].out.value = normalized[1].out.value

\* base64 decoding, the inverse of base64.b64encode: four characters make
\* three bytes, fewer when the group ends in "=".
B64Index(c) == CHOOSE i \in 0..63 : B64Alphabet[i + 1] = c

RECURSIVE b64decode(_)
b64decode(s) ==
    IF Len(s) < 4 THEN <<>>
    ELSE LET i1 == B64Index(SubSeq(s, 1, 1))
             i2 == B64Index(SubSeq(s, 2, 2))
             c3 == SubSeq(s, 3, 3)
             c4 == SubSeq(s, 4, 4)
             b1 == i1 * 4 + (i2 \div 16)
         IN  IF c3 = "=" THEN <<b1>>
             ELSE LET i3 == B64Index(c3)
                      b2 == (i2 % 16) * 16 + (i3 \div 4)
                  IN  IF c4 = "=" THEN <<b1, b2>>
                      ELSE <<b1, b2, (i3 % 4) * 64 + B64Index(c4)>>
                               \o b64decode(SubSeq(s, 5, Len(s)))

\* C14: whenever input_pdf_setup returns a payload, it is a list of exactly
\* one element, with the two keys mime_type and data; mime_type is
\* "image/jpeg" and data is the base64 text of one whole JPEG stream, from
\* its start-of-image marker to its end-of-image marker, of one page of the
\* document.
C14_SingleJpegPart ==
    (/\ IsNormalize
     /\ call.out.kind = "return"
     /\ call.out.value # PyNone) =>
        /\ call.out.value.tag = "list"
        /\ Len(call.out.value.items) = 1
        /\ DOMAIN call.out.value.items[1] = {"mime_type", "data"}
        /\ call.out.value.items[1].mime_type = "image/jpeg"
        /\ Len(call.out.value.items[1].data) % 4 = 0
        /\ LET jpeg == b64decode(call.out.value.items[1].data)
           IN  /\ Len(jpeg) >= 4
               /\ SubSeq(jpeg, 1, 2) = <<255, 216>>
               /\ SubSeq(jpeg, Len(jpeg) - 1, Len(jpeg)) = <<255, 217>>
               /\ \E i \in DOMAIN Decoded(call.arg).value :
                      jpeg = save_JPEG(Decoded(call.arg).value[i])

\* The payload of a one-page document whose page is the raster 200: the
\* JPEG stream 255 216 200 255 217 in base64.
C14_Witness ==
    /\ IsNormalize
    /\ call.arg # PyNone
    /\ call.arg.data = <<PdfMagic, 200>>
    /\ call.out.kind = "return"
    /\ call.out.value # PyNone
    /\ call.out.value.items[1].data = "/9jI/9k="

\* What the analysis of thread t comes to when it runs alone on its stream:
\* the outcome of input_pdf_setup, and the response to the payload it made.
Alone(t) ==
    Observable(input_pdf_setup(par.streams[par.th[t].stream], poppler))

\* C15, as claimed: in every interleaving of the steps of two analyses, also
\* of two that normalize the same stream, each thread's input_pdf_setup ends
\* with the outcome it has when run alone, and its get_gemini_response
\* answers the payload of that outcome.
C15_Independent ==
    \A t \in DOMAIN par.th :
        /\ par.th[t].pc \in {"submit", "await", "done"} =>
               par.th[t].pdf_content = Alone(t)
        /\ par.th[t].status \in Terminal =>
               par.th[t].response
                   = get_gemini_response(par.th[t].context, Alone(t).value,
                                         prompts[par.th[t].name],
                                         par.th[t].genai)

\* The eight templates as the script's literals define them.
TemplateCatalog ==
    [input_prompt_email   |-> input_prompt_email,
     input_prompt1        |-> input_prompt1,
     input_prompt2        |-> input_prompt2,
     input_prompt3        |-> input_prompt3,
     input_prompt4        |-> input_prompt4,
     input_prompt5        |-> input_prompt5,
     input_prompt6        |-> input_prompt6,
     input_prompt_roadmap |-> input_prompt_roadmap]

\* C16: no step of a run (configuring the key, reading the widgets, a
\* branch of the dispatch with its normalizer and inference calls, the
\* export buttons, a rerun) changes a template: the catalog is the same
\* after every step as before it, and is always the catalog of literals.
C16_TemplatesNeverWritten ==
    /\ [](prompts = TemplateCatalog)
    /\ [][prompts' = prompts]_vars

\* A finished run that passed two templates with a context of the user, one
\* of them to a call that failed, and has the catalog of literals.
C16_Witness ==
    /\ pc = "done"
    /\ analysis_context # ""
    /\ Len(analyzed) = 2
    /\ analyzed[2].by = "submit1"
    /\ analyzed[2].out.ui # <<>>
    /\ analyzed[2].prompt = input_prompt1
    /\ prompts = TemplateCatalog

\* C17: every request that reaches generate_content in a run has exactly
\* three parts, in this order: the text of the context box in that run (the
\* empty string when the user typed nothing), element 0 of the list that
\* input_pdf_setup returned to the same branch, which is that list's only
\* element, and the template the branch passed.
C17_ThreePartsInOrder ==
    \A i \in DOMAIN analyzed :
        \A k \in DOMAIN analyzed[i].out.sent :
            LET parts == analyzed[i].out.sent[k]
            IN  /\ Len(parts) = 3
                /\ parts[1] = analysis_context
                /\ parts[1] \in Contexts
                /\ \E n \in DOMAIN normalized :
                       /\ normalized[n].by = analyzed[i].by
                       /\ normalized[n].out.value # PyNone
                       /\ Len(normalized[n].out.value.items) = 1
                       /\ parts[2] = normalized[n].out.value.items[1]
                /\ parts[3] = TemplateOf[ButtonLabel[analyzed[i].by]]

\* A run without context whose roadmap request reached generate_content with
\* the empty string first, the page image second and the template third.
C17_Witness ==
    /\ pc = "done"
    /\ analysis_context = ""
    /\ Len(analyzed) = 1
    /\ analyzed[1].by = "submit_roadmap"
    /\ Len(analyzed[1].out.sent) = 1
    /\ analyzed[1].out.sent[1][1] = ""
    /\ analyzed[1].out.sent[1][2].mime_type = "image/jpeg"
    /\ analyzed[1].out.sent[1][3] = input_prompt_roadmap

\* Whether the page of this run shows an entry of the given kind.
Shows(kind) == \E i \in DOMAIN ui : ui[i].kind = kind

\* C18, as claimed: the run that a click on "Copy Email" starts, on a page
\* that showed a generated email, shows the response for copying, and the
\* run that a click on "Download as Text" starts, on a page that showed a
\* roadmap, offers the response for download, the document still being
\* uploaded.  (A button is True only in the run its click starts, so no
\* later run can do it instead.)
C18_ExportAfterClick ==
    (pc = "done" /\ flags = {} /\ uploaded_file # PyNone) =>
        /\ "Copy Email" \in nested => Shows("code")
        /\ "Download as Text" \in nested => Shows("download_button")

FailedToProcess ==
    UI("error", "Failed to process the PDF. Please try uploading a different file.")

\* C19: in every run, a branch whose input_pdf_setup returned None makes no
\* call of get_gemini_response and the page of the run carries the report
\* "Failed to process the PDF..."; and every call of get_gemini_response in
\* a run follows, in the same branch of the same run, an input_pdf_setup
\* that returned a payload, which is the payload the call was given.
C19_NoInferenceAfterFailure ==
    /\ \A n \in DOMAIN normalized :
           (normalized[n].out.kind = "return"
                /\ normalized[n].out.value = PyNone) =>
               /\ \A i \in DOMAIN analyzed :
                      analyzed[i].by # normalized[n].by
               /\ \E k \in DOMAIN ui : ui[k] = FailedToProcess
    /\ \A i \in DOMAIN analyzed :
           /\ \E n \in DOMAIN normalized :
                  /\ normalized[n].by = analyzed[i].by
                  /\ Classify(normalized[n].out) = "Payload"
                  /\ analyzed[i].payload = normalized[n].out.value
           /\ Len(analyzed) <= Len(normalized)

\* A finished run on a corrupt document with two buttons True: two
\* normalizations returned None, two reports, no inference call.
C19_Witness ==
    /\ pc = "done"
    /\ Len(normalized) = 2
    /\ normalized[1].out.value = PyNone
    /\ normalized[2].out.value = PyNone
    /\ analyzed = <<>>
    /\ Cardinality({k \in DOMAIN ui : ui[k] = FailedToProcess}) = 2

\* Whether the key the run resolved is one the script hands to
\* genai.configure, and whether the page carries a report of the key
\* configuration (no usable key, or an exception while configuring).
UsableKey(k) == Truthy(k) /\ k # PyStr(Placeholder)

ConfigurationReported ==
    \E k \in DOMAIN ui :
        /\ ui[k].kind = "error"
        /\ ui[k].text \in {"Please configure your Google API Key",
                           "Error configuring API: No secrets found",
                           "Error configuring API: configure failed"}

\* C20: a run in which input_pdf_setup or get_gemini_response has been
\* called resolved a usable key and configured genai with it without a
\* report; and a run that resolved no key, an empty key or the placeholder,
\* or in which configuring raised, has stopped after the report, before the
\* widgets and the dispatch, with neither function called.
C20_NoCallWithoutCredential ==
    /\ (normalized # <<>> \/ analyzed # <<>>) =>
           /\ UsableKey(api_key)
           /\ ~ConfigurationReported
           /\ pc \in {"chain", "done", "failed"}
    /\ (pc \notin {"idle", "rerun", "configure"}
            /\ (~UsableKey(api_key) \/ ConfigurationReported)) =>
           /\ pc = "stopped"
           /\ Len(ui) = 1
           /\ ConfigurationReported
           /\ normalized = <<>>
           /\ analyzed = <<>>

\* A run with a document and every button True that resolved the
\* placeholder key: it stopped with the report and called nothing.
C20_Witness ==
    /\ pc = "stopped"
    /\ api_key = PyStr(Placeholder)
    /\ uploaded_file # PyNone
    /\ flags = Buttons
    /\ ui = <<UI("error", "Please configure your Google API Key")>>
    /\ normalized = <<>>
    /\ analyzed = <<>>

\* C21: create_secrets_template never overwrites an existing secrets file.
\* In every call, when .streamlit/secrets.toml exists before the call (a
\* file, or a link to one, with whatever content: empty, the template, a
\* real key) the working directory after the call is the one before it; and
\* a call that directly follows another call leaves the working directory
\* as the first call left it, whether the first created the file, found it
\* or raised.
C21_NeverOverwrites ==
    \A i \in DOMAIN fs.log :
        fs.log[i].op = "call" =>
            /\ fs.log[i].before.file.content # PyNone =>
                   /\ fs.log[i].out.kind = "return"
                   /\ fs.log[i].out.disk = fs.log[i].before
            /\ exists(fs.log[i].before.file) =>
                   fs.log[i].out.disk.file = fs.log[i].before.file
            /\ (i + 1 \in DOMAIN fs.log /\ fs.log[i + 1].op = "call") =>
                   fs.log[i + 1].out.disk = fs.log[i].out.disk

\* The user replaced the template by a real key, then ran the setup twice:
\* the key is still there, and the second call left what the first left.
C21_Witness ==
    /\ Len(fs.log) = 3
    /\ fs.log[1].op = "edit"
    /\ fs.log[1].before.file = Entry("file", PyStr(template_content))
    /\ fs.log[2].op = "call"
    /\ fs.log[3].op = "call"
    /\ fs.disk.file = Entry("file", PyStr("GOOGLE_API_KEY = \"AIzaSy-key\""))
    /\ fs.log[3].out.prints
           = <<"Secrets file already exists: .streamlit/secrets.toml">>

====
